---- MODULE Spec2Model ----
(***************************************************************************)
(* Model of app.py: the RateLimiter (sliding window of request times       *)
(* guarded by a lock), the SchemaGenerator request path and the upload     *)
(* path of SchemaGeneratorUI over the schemas table.                       *)
(*                                                                         *)
(* Time is an integer clock.  In Spec (one RateLimiter, concurrent callers)*)
(* the clock advances only when no caller can take a step: an ideal        *)
(* scheduler without jitter, so every delay in a behaviour is one the code *)
(* itself induces.  SpecApp and SpecUpload are interactive sessions of the *)
(* script: one generating schemas, one uploading schema files.             *)
(***************************************************************************)
EXTENDS Integers, Sequences, FiniteSets, TLC

\* ---------------------------------------------------------------- bounds
NumThreads == 3
MaxCalls == 6
MaxTime == 3
MaxMR == 3
MaxTF == 2
MaxFiles == 3
MaxRecords == 1
MaxGen == 2
MaxResp == 3

\* the pieces a response of the service is drawn from
RespTokens == {"FENCE_JSON", "FENCE", "not json at all", "{\"a\":1}", "{}", "null"}

Threads == 1..NumThreads

VARIABLES
    now,            \* time.time()
    max_requests,   \* RateLimiter.max_requests
    time_frame,     \* RateLimiter.time_frame
    request_times,  \* RateLimiter.request_times (deque, front = index 1)
    lock,           \* RateLimiter._lock: 0 = free, else the holding thread
    pc,             \* per caller: "idle", "acquire" (line 37), "sleeping" (line 50)
    current_time,   \* per caller: local current_time of wait()
    wake,           \* per caller: instant at which time.sleep(wait_time) ends
    chk,            \* per caller: what the caller's check (lines 39-48) saw
    calls,          \* number of wait() calls started
    grants,         \* history: one record per wait() call that returned
    gemini_api_key, \* st.session_state.gemini_api_key
    db,             \* rows of table schemas in schema_records.db, in insertion order
    apiCalls,       \* history: instants of the generate_content calls of the session
    lastGen,        \* history: the last script run, if "Generate Schema" was clicked
    lastUpload      \* history: the last script run, if files were uploaded

threadVars == <<lock, pc, current_time, wake, chk, calls, grants>>
appVars == <<gemini_api_key, db, apiCalls, lastGen, lastUpload>>

vars == <<now, max_requests, time_frame, request_times, lock, pc,
          current_time, wake, chk, calls, grants,
          gemini_api_key, db, apiCalls, lastGen, lastUpload>>

\* ------------------------------------------------------- RateLimiter.wait

\* lines 39-40: pop from the left while the front is older than time_frame
RECURSIVE Evicted(_, _, _)
Evicted(q, ct, tf) ==
    IF q # <<>> /\ ct - Head(q) > tf
    THEN Evicted(Tail(q), ct, tf)
    ELSE q

\* lines 45-46: wait_time = time_frame - (current_time - oldest_request)
wait_time(q, ct, tf) == tf - (ct - Head(q))

\* lines 43 and 48: the caller reaches time.sleep
MustSleep(q, ct, mr, tf) ==
    /\ Len(q) >= mr
    /\ q # <<>>
    /\ wait_time(q, ct, tf) > 0

\* number of calls that returned at an instant in [lo, hi]
GrantsIn(lo, hi) ==
    Cardinality({i \in 1..Len(grants) : grants[i].ret >= lo /\ grants[i].ret <= hi})

\* number of callers inside wait()
Pending == Cardinality({u \in Threads : pc[u] # "idle"})

NoChk == [at |-> 0, len |-> 0, oldest |-> 0, under |-> FALSE, underInv |-> FALSE]

\* line 35: current_time = time.time(), read before the lock is taken
Call(t) ==
    /\ pc[t] = "idle"
    \* callers are interchangeable: the next call is made by the lowest idle one
    /\ \A u \in Threads : u < t => pc[u] # "idle"
    /\ calls < MaxCalls
    /\ calls' = calls + 1
    /\ current_time' = [current_time EXCEPT ![t] = now]
    /\ chk' = [chk EXCEPT ![t] =
                 [NoChk EXCEPT !.underInv =
                     GrantsIn(now - time_frame, now) + Pending < max_requests]]
    /\ pc' = [pc EXCEPT ![t] = "acquire"]
    /\ UNCHANGED <<now, max_requests, time_frame, request_times, lock, wake, grants>>
    /\ UNCHANGED appVars

\* what a caller records about its check when it holds the lock
ChkOf(t, q) ==
    [at |-> now, len |-> Len(q),
     oldest |-> IF q = <<>> THEN 0 ELSE Head(q),
     under |-> GrantsIn(now - time_frame, now) < max_requests,
     underInv |-> chk[t].underInv]

GrantOf(t, c, slept) ==
    [inv |-> current_time[t], ret |-> now, stamp |-> current_time[t],
     slept |-> slept, chkAt |-> c.at, len |-> c.len, oldest |-> c.oldest,
     room |-> Len(request_times) < max_requests,
     under |-> c.under, underInv |-> c.underInv]

\* lines 37-43, 53: lock, evict, no sleep, append current_time, unlock
Proceed(t) ==
    /\ pc[t] = "acquire"
    /\ lock = 0
    /\ LET q == Evicted(request_times, current_time[t], time_frame) IN
         /\ ~MustSleep(q, current_time[t], max_requests, time_frame)
         /\ request_times' = Append(q, current_time[t])
         /\ grants' = Append(grants, GrantOf(t, ChkOf(t, q), FALSE))
    /\ pc' = [pc EXCEPT ![t] = "idle"]
    /\ UNCHANGED <<now, max_requests, time_frame, lock, current_time, wake, chk, calls>>
    /\ UNCHANGED appVars

\* lines 37-50: lock, evict, the window is full: time.sleep(wait_time) inside
\* the with block
BeginSleep(t) ==
    /\ pc[t] = "acquire"
    /\ lock = 0
    /\ LET q == Evicted(request_times, current_time[t], time_frame) IN
         /\ MustSleep(q, current_time[t], max_requests, time_frame)
         /\ request_times' = q
         /\ wake' = [wake EXCEPT ![t] = now + wait_time(q, current_time[t], time_frame)]
         /\ chk' = [chk EXCEPT ![t] = ChkOf(t, q)]
    /\ lock' = t
    /\ pc' = [pc EXCEPT ![t] = "sleeping"]
    /\ UNCHANGED <<now, max_requests, time_frame, current_time, calls, grants>>
    /\ UNCHANGED appVars

\* lines 50-53: the sleep is over, append current_time, leave the with block
Wake(t) ==
    /\ pc[t] = "sleeping"
    /\ now >= wake[t]
    /\ request_times' = Append(request_times, current_time[t])
    /\ grants' = Append(grants, GrantOf(t, chk[t], TRUE))
    /\ lock' = 0
    /\ pc' = [pc EXCEPT ![t] = "idle"]
    /\ UNCHANGED <<now, max_requests, time_frame, current_time, wake, chk, calls>>
    /\ UNCHANGED appVars

\* the clock advances only when no caller can run: nobody is waiting for a
\* free lock and no sleep has expired
Tick ==
    /\ ~(lock = 0 /\ \E t \in Threads : pc[t] = "acquire")
    /\ \A t \in Threads : pc[t] = "sleeping" => now < wake[t]
    /\ now < MaxTime
    /\ now' = now + 1
    /\ UNCHANGED <<max_requests, time_frame, request_times>>
    /\ UNCHANGED threadVars
    /\ UNCHANGED appVars

NoGen == [clicked |-> FALSE]
NoUpload == [called |-> FALSE]

\* RateLimiter.__init__ with the constructor arguments drawn from small sets
Init ==
    /\ now = 0
    /\ max_requests \in 1..MaxMR
    /\ time_frame \in 1..MaxTF
    /\ request_times = <<>>
    /\ lock = 0
    /\ pc = [t \in Threads |-> "idle"]
    /\ current_time = [t \in Threads |-> 0]
    /\ wake = [t \in Threads |-> 0]
    /\ chk = [t \in Threads |-> NoChk]
    /\ calls = 0
    /\ grants = <<>>
    /\ gemini_api_key = ""
    /\ db = <<>>
    /\ apiCalls = <<>>
    /\ lastGen = NoGen
    /\ lastUpload = NoUpload

Next ==
    \/ \E t \in Threads : Call(t)
    \/ \E t \in Threads : Proceed(t)
    \/ \E t \in Threads : BeginSleep(t)
    \/ \E t \in Threads : Wake(t)
    \/ Tick

Spec == Init /\ [][Next]_vars

\* ------------------------------------------------------------------ text
\* A text is a sequence of lexical pieces.
FenceJson == "FENCE_JSON"       \* three backquotes, "json", newline
Fence == "FENCE"                \* three backquotes
Newline == "NEWLINE"
Prose == "not json at all"
BadByte == "0xFF"               \* a byte that is not valid UTF-8

\* Python values (None is also what generate_schema returns on failure)
PyNone == "None"
PyFalse == "False"
PyZero == "0"
PyEmptyDict == "{}"
PyEmptyList == "[]"
PyDictA1 == "{'a': 1}"
JSONDecodeError == "JSONDecodeError"
UnicodeDecodeError == "UnicodeDecodeError"

DocTokens == {"{\"a\":1}", "{\"a\": 1}", "{}", "[]", "null", "false", "0"}

DocValue(tok) ==
    CASE tok = "{\"a\":1}" -> PyDictA1
      [] tok = "{\"a\": 1}" -> PyDictA1
      [] tok = "{}" -> PyEmptyDict
      [] tok = "[]" -> PyEmptyList
      [] tok = "null" -> PyNone
      [] tok = "false" -> PyFalse
      [] tok = "0" -> PyZero

IsWhitespace(c) == c = Newline

\* json.loads: one document, surrounded by optional whitespace
json_loads(text) ==
    LET body == SelectSeq(text, LAMBDA c : ~IsWhitespace(c)) IN
    IF Len(body) = 1 /\ body[1] \in DocTokens
    THEN DocValue(body[1])
    ELSE JSONDecodeError

\* json.dumps with the default separators
json_dumps(v) ==
    CASE v = PyDictA1 -> "{\"a\": 1}"
      [] v = PyEmptyDict -> "{}"
      [] v = PyEmptyList -> "[]"
      [] v = PyNone -> "null"
      [] v = PyFalse -> "false"
      [] v = PyZero -> "0"

\* bool(v) as used by "if schema:"
Truthy(v) == v \notin {PyNone, PyFalse, PyZero, PyEmptyDict, PyEmptyList}

\* bytes.decode('utf-8')
decode_utf8(content) ==
    IF \E i \in 1..Len(content) : content[i] = BadByte
    THEN UnicodeDecodeError
    ELSE content

IsFence(c) == c \in {Fence, FenceJson}

\* re.search(r'```json\n(.*?)```', text, re.DOTALL): the leftmost opening
\* fence that is followed by three backquotes, and the shortest interior
re_search(text) ==
    LET opens == {i \in 1..Len(text) :
                    /\ text[i] = FenceJson
                    /\ \E j \in (i+1)..Len(text) : IsFence(text[j])} IN
    IF opens = {}
    THEN [found |-> FALSE, group |-> <<>>]
    ELSE LET i == CHOOSE k \in opens : \A m \in opens : k <= m
             j == CHOOSE k \in (i+1)..Len(text) :
                     /\ IsFence(text[k])
                     /\ \A m \in (i+1)..(k-1) : ~IsFence(text[m])
         IN [found |-> TRUE, group |-> SubSeq(text, i+1, j-1)]

\* ------------------------------------------ SchemaGenerator, the session
DefaultMaxRequests == 60
DefaultTimeFrame == 60

\* RateLimiter.wait() run by a single caller, start to return
WaitAlone(q, ct, mr, tf) ==
    LET e == Evicted(q, ct, tf) IN
    [request_times |-> Append(e, ct),
     ret |-> IF MustSleep(e, ct, mr, tf) THEN ct + wait_time(e, ct, tf) ELSE ct]

\* SchemaGenerator.__init__: a RateLimiter() with the default arguments
NewRateLimiter ==
    [max_requests |-> DefaultMaxRequests, time_frame |-> DefaultTimeFrame,
     request_times |-> <<>>]

\* the limiter of the current script run: run() builds a SchemaGenerator on
\* every run in which the API key is set
RunLimiter ==
    IF gemini_api_key # ""
    THEN NewRateLimiter
    ELSE [max_requests |-> max_requests, time_frame |-> time_frame,
          request_times |-> request_times]

\* what the generation service does with one request
Outcomes ==
    {[kind |-> "blocked", text |-> <<>>], [kind |-> "error", text |-> <<>>]}
    \cup {[kind |-> "text", text |-> x] : x \in UNION {[1..n -> RespTokens] : n \in 0..MaxResp}}

\* generate_schema after the wait: the value it returns
generate_schema(o) ==
    IF o.kind = "blocked" THEN PyNone
    ELSE IF o.kind = "error" THEN PyNone
    ELSE LET json_match == re_search(o.text)
             schema_text == IF json_match.found THEN json_match.group ELSE o.text
             schema == json_loads(schema_text)
         IN IF schema = JSONDecodeError THEN PyNone ELSE schema

\* the row of one INSERT INTO schemas; uuid4 is a fresh identifier
Row(rows, prompt, schema, at) ==
    [id |-> Len(rows) + 1, prompt |-> prompt, schema |-> json_dumps(schema),
     created_at |-> at]

\* the document text a response carries under the extraction rule (the
\* interior of the fenced JSON block if there is one, else the whole text)
NoDocument == "no document"
DocumentOf(text) ==
    LET m == re_search(text)
        body == SelectSeq(IF m.found THEN m.group ELSE text,
                          LAMBDA c : ~IsWhitespace(c))
    IN IF Len(body) = 1 /\ body[1] \in DocTokens THEN body[1] ELSE NoDocument

\* the sidebar text input receives a key
EnterKey ==
    /\ gemini_api_key = ""
    /\ gemini_api_key' = "key"
    /\ max_requests' = NewRateLimiter.max_requests
    /\ time_frame' = NewRateLimiter.time_frame
    /\ request_times' = NewRateLimiter.request_times
    /\ UNCHANGED <<now, db, apiCalls, lastGen, lastUpload>>
    /\ UNCHANGED threadVars

\* one script run with the "Generate Schema" button pressed
GenerateClick(prompt, o) ==
    /\ gemini_api_key # ""
    /\ prompt # ""
    /\ Len(apiCalls) < MaxGen
    /\ Len(db) < MaxRecords
    /\ LET rl == RunLimiter
           w == WaitAlone(rl.request_times, now, rl.max_requests, rl.time_frame)
           schema == generate_schema(o)
       IN /\ max_requests' = rl.max_requests
          /\ time_frame' = rl.time_frame
          /\ request_times' = w.request_times
          /\ now' = w.ret
          /\ apiCalls' = Append(apiCalls, w.ret)
          /\ db' = IF Truthy(schema) THEN Append(db, Row(db, prompt, schema, w.ret)) ELSE db
          /\ lastGen' = [clicked |-> TRUE, kind |-> o.kind,
                         doc |-> IF o.kind = "text" THEN DocumentOf(o.text)
                                 ELSE NoDocument,
                         schema |-> schema, before |-> db,
                         entryLen |-> Len(rl.request_times),
                         priorRecent |-> \E i \in 1..Len(apiCalls) :
                                            now - apiCalls[i] < rl.time_frame]
    /\ lastUpload' = NoUpload
    /\ UNCHANGED gemini_api_key
    /\ UNCHANGED threadVars

\* -------------------------------------------------- _upload_schema_files
\* the i-th file of a batch is named "<i>.json"; its content is one of
\* a JSON object, a JSON array with a trailing newline, prose, and bytes
\* that are not UTF-8
UploadContents ==
    {<<"{\"a\":1}">>, <<"[]", Newline>>, <<Prose>>, <<BadByte>>}
FileName(i) == ToString(i) \o ".json"
Batches ==
    UNION {{[i \in 1..n |-> [name |-> FileName(i), content |-> c[i]]] :
              c \in [1..n -> UploadContents]} : n \in 1..MaxFiles}

\* the loop body without the handler of line 172: a file that is not
\* UTF-8 ends the batch entry without a failure record, and a file that is not
\* JSON discards the successes collected so far
UploadOneUnisolated(acc, f) ==
    LET file_content == decode_utf8(f.content) IN
    IF file_content = UnicodeDecodeError
    THEN acc
    ELSE LET schema == json_loads(file_content) IN
         IF schema = JSONDecodeError
         THEN [acc EXCEPT !.ok = <<>>,
                          !.failed = Append(@, [filename |-> f.name,
                                                error |-> "Invalid JSON format"])]
         ELSE [rows |-> Append(acc.rows,
                         Row(acc.rows, "Uploaded: " \o f.name, schema, now)),
               ok |-> Append(acc.ok, [filename |-> f.name,
                                      id |-> Len(acc.rows) + 1,
                                      schema |-> schema]),
               failed |-> acc.failed]

\* lines 144-176: the body of the for loop, for one uploaded file
UploadOne(acc, f) ==
    LET file_content == decode_utf8(f.content) IN
    IF file_content = UnicodeDecodeError
    THEN [acc EXCEPT !.failed =
            Append(@, [filename |-> f.name, error |-> UnicodeDecodeError])]
    ELSE LET schema == json_loads(file_content) IN
         IF schema = JSONDecodeError
         THEN [acc EXCEPT !.failed =
                 Append(@, [filename |-> f.name, error |-> "Invalid JSON format"])]
         ELSE [rows |-> Append(acc.rows,
                         Row(acc.rows, "Uploaded: " \o f.name, schema, now)),
               ok |-> Append(acc.ok, [filename |-> f.name,
                                      id |-> Len(acc.rows) + 1,
                                      schema |-> schema]),
               failed |-> acc.failed]

\* lines 140-143, 196: the for loop over uploaded_files
RECURSIVE UploadLoop(_, _)
UploadLoop(acc, files) ==
    IF files = <<>>
    THEN acc
    ELSE UploadLoop(UploadOne(acc, Head(files)), Tail(files))

\* one script run with files in the uploader (lines 357-359)
Upload(files) ==
    /\ files # <<>>
    /\ Len(db) < MaxRecords
    /\ LET rl == RunLimiter
           r == UploadLoop([rows |-> db, ok |-> <<>>, failed |-> <<>>], files)
       IN /\ max_requests' = rl.max_requests
          /\ time_frame' = rl.time_frame
          /\ request_times' = rl.request_times
          /\ db' = r.rows
          /\ lastUpload' = [called |-> TRUE, files |-> files, before |-> db,
                            ok |-> r.ok, failed |-> r.failed]
    /\ lastGen' = NoGen
    /\ UNCHANGED <<now, gemini_api_key, apiCalls>>
    /\ UNCHANGED threadVars

Prompts == {"a schema for a user"}

\* the session before the first interaction
InitApp ==
    /\ now = 0
    /\ max_requests = DefaultMaxRequests
    /\ time_frame = DefaultTimeFrame
    /\ request_times = <<>>
    /\ lock = 0
    /\ pc = [t \in Threads |-> "idle"]
    /\ current_time = [t \in Threads |-> 0]
    /\ wake = [t \in Threads |-> 0]
    /\ chk = [t \in Threads |-> NoChk]
    /\ calls = 0
    /\ grants = <<>>
    /\ gemini_api_key = ""
    /\ db = <<>>
    /\ apiCalls = <<>>
    /\ lastGen = NoGen
    /\ lastUpload = NoUpload

\* a session in which the user generates schemas
NextApp ==
    \/ EnterKey
    \/ \E prompt \in Prompts : \E o \in Outcomes : GenerateClick(prompt, o)
    \/ Tick

SpecApp == InitApp /\ [][NextApp]_vars

\* a session in which the user uploads schema files
NextUpload ==
    \/ \E files \in Batches : Upload(files)
    \/ Tick

SpecUpload == InitApp /\ [][NextUpload]_vars

\* ------------------------------------------------------------ properties

IsSorted(q) == \A i \in 1..Len(q) : \A j \in i..Len(q) : q[i] <= q[j]

\* C1 (quota): no half-open interval [s, s + time_frame) holds more than
\* max_requests returns of wait().
C1_Quota ==
    \A i \in 1..Len(grants) :
        GrantsIn(grants[i].ret, grants[i].ret + time_frame - 1) <= max_requests

\* C3 (bounded wait): every call of wait() that returned did so no later than
\* time_frame after the caller invoked it.
C3_BoundedWait ==
    \A i \in 1..Len(grants) : grants[i].ret - grants[i].inv <= time_frame

\* C4 (no delay under quota): a call reaches no sleep and returns at the
\* instant of its call when fewer than max_requests calls returned within the
\* last time_frame, both at its invocation (there counting also the callers
\* still inside wait()) and at its check.
C4_NoDelayUnderQuota ==
    \A i \in 1..Len(grants) :
        (grants[i].under /\ grants[i].underInv)
            => (~grants[i].slept /\ grants[i].ret = grants[i].inv)

\* C5 (wait duration at quota): a call that finds at least max_requests
\* unexpired entries returns at oldest entry + time_frame, having blocked for
\* time_frame - (instant of its check - oldest entry).
C5_WaitDuration ==
    \A i \in 1..Len(grants) :
        grants[i].len >= max_requests
            => /\ grants[i].ret = grants[i].oldest + time_frame
               /\ grants[i].ret - grants[i].chkAt
                    = time_frame - (grants[i].chkAt - grants[i].oldest)

\* C8 (lock released while suspended): no caller sleeps while holding the lock.
C8_NoSleepUnderLock ==
    \A t \in Threads : pc[t] = "sleeping" => lock # t

\* C9 (re-validation after waking): a caller that slept appends only when it
\* sees fewer than max_requests entries, and appends the instant at which it
\* proceeds, not the time read before the sleep.
C9_Revalidates ==
    \A i \in 1..Len(grants) :
        grants[i].slept => (grants[i].room /\ grants[i].stamp = grants[i].ret)

\* C10 (chronological queue): request_times is non-decreasing front to back.
C10_Chronological == IsSorted(request_times)

\* C2 (shared limiter per session): the generate_content calls of a session
\* never exceed the quota in a window, and a request that follows a request
\* granted less than time_frame ago does not start from an empty window.
C2_SharedLimiter ==
    /\ \A i \in 1..Len(apiCalls) :
         Cardinality({j \in 1..Len(apiCalls) :
                        /\ apiCalls[j] >= apiCalls[i]
                        /\ apiCalls[j] < apiCalls[i] + DefaultTimeFrame})
           <= DefaultMaxRequests
    /\ (lastGen.clicked /\ lastGen.priorRecent) => lastGen.entryLen > 0

\* a file whose content is valid UTF-8 JSON: no invalid byte, and exactly one
\* JSON document besides whitespace
IsJsonFile(f) ==
    /\ \A i \in 1..Len(f.content) : f.content[i] # BadByte
    /\ Cardinality({i \in 1..Len(f.content) : f.content[i] \in DocTokens}) = 1
    /\ \A i \in 1..Len(f.content) : f.content[i] \in DocTokens \cup {Newline}

\* how many rows of seq carry the tag, how many entries of seq the file name
RowsTagged(seq, name) ==
    Cardinality({k \in 1..Len(seq) : seq[k].prompt = "Uploaded: " \o name})
EntriesNamed(seq, name) ==
    Cardinality({k \in 1..Len(seq) : seq[k].filename = name})

\* C6 (batch upload isolation): every valid file yields exactly one new row
\* tagged with its name and one success entry, every other file exactly one
\* failure entry naming it and no row; earlier rows are kept; successes +
\* failures = number of files.
C6_BatchIsolation ==
    lastUpload.called =>
        LET files == lastUpload.files
            before == lastUpload.before
            ok == lastUpload.ok
            failed == lastUpload.failed
            new == SubSeq(db, Len(before) + 1, Len(db))
        IN /\ Len(db) >= Len(before)
           /\ SubSeq(db, 1, Len(before)) = before
           /\ Len(ok) + Len(failed) = Len(files)
           /\ Len(new) = Len(ok)
           /\ \A k \in 1..Len(db) : \A m \in 1..Len(db) : db[k].id = db[m].id => k = m
           /\ \A i \in 1..Len(files) :
                IF IsJsonFile(files[i])
                THEN /\ RowsTagged(new, files[i].name) = 1
                     /\ EntriesNamed(ok, files[i].name) = 1
                     /\ EntriesNamed(failed, files[i].name) = 0
                     /\ \E k \in 1..Len(ok) :
                          /\ ok[k].filename = files[i].name
                          /\ \E r \in 1..Len(db) :
                               /\ db[r].id = ok[k].id
                               /\ db[r].prompt = "Uploaded: " \o files[i].name
                               /\ json_loads(<<db[r].schema>>) = ok[k].schema
                ELSE /\ RowsTagged(new, files[i].name) = 0
                     /\ EntriesNamed(ok, files[i].name) = 0
                     /\ EntriesNamed(failed, files[i].name) = 1

\* three files, the second one invalid: two rows and one failure naming it
C6_Witness ==
    /\ lastUpload.called
    /\ Len(lastUpload.files) = 3
    /\ IsJsonFile(lastUpload.files[1])
    /\ ~IsJsonFile(lastUpload.files[2])
    /\ IsJsonFile(lastUpload.files[3])
    /\ Len(lastUpload.ok) = 2
    /\ Len(lastUpload.failed) = 1
    /\ lastUpload.failed[1].filename = "2.json"
    /\ Len(db) = Len(lastUpload.before) + 2

\* C7 (one record per successful generation): a response that yields a valid
\* JSON document creates exactly one row holding it, any other outcome
\* creates none, and the value returned for a document differs from the one
\* returned for a failure.
C7_OneRecordPerSuccess ==
    lastGen.clicked =>
        IF lastGen.kind = "text" /\ lastGen.doc # NoDocument
        THEN /\ Len(db) = Len(lastGen.before) + 1
             /\ SubSeq(db, 1, Len(lastGen.before)) = lastGen.before
             /\ json_loads(<<db[Len(db)].schema>>) = DocValue(lastGen.doc)
             /\ lastGen.schema # PyNone
        ELSE db = lastGen.before

====
